---- MODULE Spec2Model ----
(***************************************************************************)
(* PageRank (src/pagerank.py): transition_model, sample_pagerank and       *)
(* iterate_pagerank as state machines over small link graphs.              *)
(*                                                                         *)
(* Pages are 1..N in the insertion order of the corpus dict.  The          *)
(* arithmetic of transition_model and iterate_pagerank is carried out over *)
(* exact rationals [n, d]; the division count / n that ends                *)
(* sample_pagerank is carried out as the IEEE-754 double division Python   *)
(* performs, on fixed-point numbers of several limbs.                      *)
(***************************************************************************)
EXTENDS Integers, Sequences, FiniteSets, TLC

VARIABLES op, pc, error, corpus, damping_factor, n, page, probabilities,
          current_page, counts, i, pagerank, new_ranks, converged

vars == <<op, pc, error, corpus, damping_factor, n, page, probabilities,
          current_page, counts, i, pagerank, new_ranks, converged>>

\* Largest number of pages in a corpus of the model.
MaxPages == 3

\* Largest sample count passed to sample_pagerank.
MaxSamples == 6

(***************************************************************************)
(* Exact rationals: records [n |-> numerator, d |-> denominator > 0] in    *)
(* lowest terms.                                                           *)
(***************************************************************************)
Abs(x) == IF x < 0 THEN -x ELSE x

\* The operations are functions, so that an argument is evaluated once however
\* often the body uses it.
GCD[a \in Nat, b \in Nat] == IF b = 0 THEN a ELSE GCD[b, a % b]

Rational == [n : Int, d : Nat]

RatOf[a \in Int, b \in Nat] ==
    LET g == GCD[Abs(a), b]
    IN  IF a = 0 THEN [n |-> 0, d |-> 1] ELSE [n |-> a \div g, d |-> b \div g]

Rat(a, b) == RatOf[a, b]

RZero == [n |-> 0, d |-> 1]
ROne == [n |-> 1, d |-> 1]

RSum2[x \in Rational, y \in Rational] ==
    LET g == GCD[x.d, y.d]
    IN  RatOf[x.n * (y.d \div g) + y.n * (x.d \div g), (x.d \div g) * y.d]

RAdd(x, y) == RSum2[x, y]

RSub(x, y) == RSum2[x, RatOf[-y.n, y.d]]

RProduct[x \in Rational, y \in Rational] ==
    LET g1 == GCD[Abs(x.n), y.d]
        g2 == GCD[Abs(y.n), x.d]
    IN  IF x.n = 0 \/ y.n = 0 THEN RZero
        ELSE [n |-> (x.n \div g1) * (y.n \div g2), d |-> (x.d \div g2) * (y.d \div g1)]

RMul(x, y) == RProduct[x, y]

\* x / k for an integer k > 0
RDivInt(x, k) == RMul(x, [n |-> 1, d |-> k])

RAbs(x) == RatOf[Abs(x.n), x.d]

\* x > 0.001, for x >= 0 in lowest terms: x.n * 1000 > x.d
Tolerance == 1000
RGtTolerance(x) == x.n > x.d \div Tolerance

RPositive(x) == x.n > 0

(***************************************************************************)
(* Graphs as crawl builds them: every link target is a key, no page links  *)
(* to itself.                                                              *)
(***************************************************************************)
Graphs(N) == {g \in [1..N -> SUBSET (1..N)] : \A p \in 1..N : p \notin g[p]}

len(s) == Cardinality(DOMAIN s)

Empty == << >>

Half == [n |-> 1, d |-> 2]
Quarter == [n |-> 1, d |-> 4]

\* damping factors inside (0,1), and the boundary values no check rejects
ValidDamping == {Quarter, Half}
AnyDamping == ValidDamping \cup {RZero, ROne}

(***************************************************************************)
(* A call of operation o: the corpus has a number of pages in Ns, the      *)
(* damping factor is in Ds and (sample_pagerank) the sample count in Ss.   *)
(***************************************************************************)
Call(o, Ns, Ds, Ss) ==
    /\ op = o
    /\ pc = "start"
    /\ error = "none"
    /\ \E N \in Ns : corpus \in Graphs(N)
    /\ damping_factor \in Ds
    /\ IF o = "sample_pagerank" THEN n \in Ss ELSE n = 0
    /\ IF o = "transition_model" THEN page \in DOMAIN corpus ELSE page = 0
    /\ probabilities = Empty
    /\ current_page = 0
    /\ counts = Empty
    /\ i = 0
    /\ pagerank = Empty
    /\ new_ranks = Empty
    /\ converged = FALSE

(***************************************************************************)
(* transition_model(corpus, page, damping_factor)                          *)
(***************************************************************************)
\* the damping share divided among all pages instead of the linked ones
LinkedProbAllPages(c, pg, d, p) ==
    LET N == len(c)
        base == RDivInt(RSub(ROne, d), N)
    IN  IF p \in c[pg] THEN RAdd(base, RDivInt(d, N)) ELSE base

LinkedProb(c, pg, d, p) ==
    LET N == len(c)
        base == RDivInt(RSub(ROne, d), N)
    IN  IF p \in c[pg] THEN RAdd(base, RDivInt(d, Cardinality(c[pg]))) ELSE base

\* the dead-end branch damped like the linked one
DeadEndDamped(c, d) == RDivInt(RSub(ROne, d), len(c))

DeadEndProb(c, d) == RDivInt(ROne, len(c))

transition_model(c, pg, d) ==
    IF c[pg] # {}
    THEN [p \in DOMAIN c |-> LinkedProb(c, pg, d, p)]
    ELSE [p \in DOMAIN c |-> DeadEndProb(c, d)]

(***************************************************************************)
(* IEEE-754 doubles in [0, Base) as fixed-point numbers: Limbs limbs of    *)
(* LimbBits bits, most significant first, the first limb the integer part. *)
(* Every operation computes the exact result and rounds it to SigBits      *)
(* significant bits, ties to even, as the hardware does.                   *)
(***************************************************************************)
\* significand width of a Python float
SigBits == 53

\* bits per limb, and limbs per number: the fraction has (Limbs - 1) * LimbBits
\* bits, enough for the guard bit of every quotient count / n of the model
LimbBits == 15
Limbs == 5

RECURSIVE Pow2(_)
Pow2(k) == IF k = 0 THEN 1 ELSE 2 * Pow2(k - 1)

Base == Pow2(LimbBits)
FracBits == LimbBits * (Limbs - 1)

FZero == [j \in 1..Limbs |-> 0]
FOne == [j \in 1..Limbs |-> IF j = 1 THEN 1 ELSE 0]

\* bit e of x, bit 0 the least significant
Bit(x, e) == (x[Limbs - (e \div LimbBits)] \div Pow2(e % LimbBits)) % 2

\* index of the leading one bit of x # 0
TopBit(x) ==
    LET j == CHOOSE k \in 1..Limbs : x[k] # 0 /\ \A m \in 1..(k - 1) : x[m] = 0
    IN  LimbBits * (Limbs - j) + Cardinality({k \in 0..(LimbBits - 1) : Pow2(k) <= x[j]}) - 1

\* carry out of the limbs below limb j in x + y
RECURSIVE Carry(_, _, _)
Carry(x, y, j) ==
    IF j = Limbs THEN 0 ELSE (x[j + 1] + y[j + 1] + Carry(x, y, j + 1)) \div Base

\* exact sum
AddLimbs(x, y) == [j \in 1..Limbs |-> (x[j] + y[j] + Carry(x, y, j)) % Base]

\* round the exact value x (plus a non-zero tail below the last limb when
\* sticky) to SigBits significant bits, ties to even
RoundDouble(x, sticky) ==
    IF x = FZero THEN x
    ELSE LET cut == TopBit(x) - (SigBits - 1)
         IN  IF cut <= 0 THEN x
             ELSE LET guard == Bit(x, cut - 1)
                      rest == sticky \/ \E e \in 0..(cut - 2) : Bit(x, e) = 1
                      up == guard = 1 /\ (rest \/ Bit(x, cut) = 1)
                      kept == [j \in 1..Limbs |->
                                 LET low == LimbBits * (Limbs - j)
                                 IN  IF low >= cut THEN x[j]
                                     ELSE IF low + LimbBits <= cut THEN 0
                                     ELSE x[j] - (x[j] % Pow2(cut - low))]
                      ulp == [j \in 1..Limbs |->
                                 IF j = Limbs - (cut \div LimbBits)
                                 THEN Pow2(cut % LimbBits) ELSE 0]
                  IN  IF up THEN AddLimbs(kept, ulp) ELSE kept

\* the k limbs of r / m after the point, for 0 <= r < m
RECURSIVE DivLimbs(_, _, _)
DivLimbs(r, m, k) ==
    IF k = 0 THEN << >>
    ELSE <<(r * Base) \div m>> \o DivLimbs((r * Base) % m, m, k - 1)

\* what is left of r / m after k limbs
RECURSIVE DivRem(_, _, _)
DivRem(r, m, k) == IF k = 0 THEN r ELSE DivRem((r * Base) % m, m, k - 1)

\* count / n of line 103, for count >= 0; a zero count gives 0.0 (its sign is
\* not kept)
FDiv(count, m) ==
    LET q == count \div Abs(m)
        r == count % Abs(m)
    IN  IF count = 0 THEN FZero
        ELSE RoundDouble(<<q>> \o DivLimbs(r, Abs(m), Limbs - 1),
                         DivRem(r, Abs(m), Limbs - 1) # 0)

(***************************************************************************)
(* sample_pagerank                                                         *)
(***************************************************************************)
\* the visit recorded by assignment instead of +=
IncrementAssign(cnt, pg) == [cnt EXCEPT ![pg] = 1]

\* line 95
Increment(cnt, pg) == [cnt EXCEPT ![pg] = @ + 1]

\* line 101: random.choices draws among the pages of positive weight
Choices(probs) == {p \in DOMAIN probs : RPositive(probs[p])}

\* line 103
Estimate(cnt, m) == [pg \in DOMAIN cnt |-> FDiv(cnt[pg], m)]

\* lines 91-92: random.choice raises IndexError on an empty list
SampleStart ==
    /\ op = "sample_pagerank"
    /\ pc = "start"
    /\ IF len(corpus) = 0
       THEN /\ pc' = "raised"
            /\ error' = "IndexError"
            /\ UNCHANGED <<current_page, counts>>
       ELSE /\ current_page' \in DOMAIN corpus
            /\ counts' = [pg \in DOMAIN corpus |-> 0]
            /\ pc' = "loop"
            /\ UNCHANGED error
    /\ UNCHANGED <<op, corpus, damping_factor, n, page, probabilities, i,
                   pagerank, new_ranks, converged>>

\* lines 94-101: one iteration of for _ in range(n)
SampleStep ==
    /\ op = "sample_pagerank"
    /\ pc = "loop"
    /\ i < n
    /\ counts' = Increment(counts, current_page)
    /\ LET probs == transition_model(corpus, current_page, damping_factor)
       IN  current_page' \in Choices(probs)
    /\ i' = i + 1
    /\ UNCHANGED <<op, pc, error, corpus, damping_factor, n, page, probabilities,
                   pagerank, new_ranks, converged>>

\* lines 103-104: count / n raises ZeroDivisionError when n = 0
SampleReturn ==
    /\ op = "sample_pagerank"
    /\ pc = "loop"
    /\ i >= n
    /\ IF n = 0
       THEN /\ pc' = "raised"
            /\ error' = "ZeroDivisionError"
            /\ UNCHANGED pagerank
       ELSE /\ pagerank' = Estimate(counts, n)
            /\ pc' = "returned"
            /\ UNCHANGED error
    /\ UNCHANGED <<op, corpus, damping_factor, n, page, probabilities,
                   current_page, counts, i, new_ranks, converged>>

InitSample == Call("sample_pagerank", 1..MaxPages, AnyDamping, 1..MaxSamples)

NextSample == SampleStart \/ SampleStep \/ SampleReturn

SpecSample == InitSample /\ [][NextSample]_vars

(***************************************************************************)
(* transition_model called on its own                                      *)
(***************************************************************************)
\* lines 61-79
TransitionModel ==
    /\ op = "transition_model"
    /\ pc = "start"
    /\ probabilities' = transition_model(corpus, page, damping_factor)
    /\ pc' = "returned"
    /\ UNCHANGED <<op, error, corpus, damping_factor, n, page, current_page,
                   counts, i, pagerank, new_ranks, converged>>

InitTransition == Call("transition_model", 1..MaxPages, ValidDamping, {0})

NextTransition == TransitionModel

SpecTransition == InitTransition /\ [][NextTransition]_vars

(***************************************************************************)
(* iterate_pagerank: one pass of the while loop body                       *)
(***************************************************************************)
\* the inner loop without its else branch: dead ends contribute nothing
RECURSIVE TotalNoDeadEnd(_, _, _, _)
TotalNoDeadEnd(c, ranks, pg, k) ==
    IF k = 0 THEN RZero
    ELSE LET prev == TotalNoDeadEnd(c, ranks, pg, k - 1)
         IN  IF pg \in c[k]
             THEN RAdd(prev, RDivInt(ranks[k], Cardinality(c[k])))
             ELSE prev

\* the inner loop with a dead end sharing its rank among the other pages only
RECURSIVE TotalDeadEndOthers(_, _, _, _)
TotalDeadEndOthers(c, ranks, pg, k) ==
    IF k = 0 THEN RZero
    ELSE LET prev == TotalDeadEndOthers(c, ranks, pg, k - 1)
         IN  IF c[k] # {}
             THEN IF pg \in c[k]
                  THEN RAdd(prev, RDivInt(ranks[k], Cardinality(c[k])))
                  ELSE prev
             ELSE IF pg = k \/ len(c) = 1 THEN prev
                  ELSE RAdd(prev, RDivInt(ranks[k], len(c) - 1))

\* lines 125-130: the inner loop over possible_page = 1..k, for one page
RECURSIVE Total(_, _, _, _)
Total(c, ranks, pg, k) ==
    IF k = 0 THEN RZero
    ELSE LET prev == Total(c, ranks, pg, k - 1)
         IN  IF c[k] # {}
             THEN IF pg \in c[k]
                  THEN RAdd(prev, RDivInt(ranks[k], Cardinality(c[k])))
                  ELSE prev
             ELSE RAdd(prev, RDivInt(ranks[k], len(c)))

\* lines 123-131
NewRank(c, ranks, d, pg) ==
    RAdd(RDivInt(RSub(ROne, d), len(c)), RMul(d, Total(c, ranks, pg, len(c))))

\* the update done in place: page k sees the new ranks of the pages before it
RECURSIVE InPlace(_, _, _, _)
InPlace(c, ranks, d, k) ==
    IF k = 0 THEN ranks
    ELSE LET r == InPlace(c, ranks, d, k - 1)
         IN  [r EXCEPT ![k] = NewRank(c, r, d, k)]

NewRanksInPlace(c, ranks, d) == InPlace(c, ranks, d, len(c))

\* lines 121-132
NewRanks(c, ranks, d) == [pg \in DOMAIN c |-> NewRank(c, ranks, d, pg)]

\* the test without its break: the last page compared decides
ConvergedLastPage(new, old) ==
    \/ DOMAIN old = {}
    \/ ~RGtTolerance(RAbs(RSub(new[len(old)], old[len(old)])))

\* lines 134-138
Converged(new, old) ==
    \A pg \in DOMAIN old : ~RGtTolerance(RAbs(RSub(new[pg], old[pg])))

\* line 140 left out
KeepOld(new, old) == old

\* line 140
Adopt(new, old) == new

InitialRanks(c) == [pg \in DOMAIN c |-> RDivInt(ROne, len(c))]


\* lines 116-119
IterateStart ==
    /\ op = "iterate_pagerank"
    /\ pc = "start"
    /\ pagerank' = InitialRanks(corpus)
    /\ converged' = FALSE
    /\ pc' = "loop"
    /\ UNCHANGED <<op, error, corpus, damping_factor, n, page, probabilities,
                   current_page, counts, i, new_ranks>>

\* lines 120-140
IterateStep ==
    /\ op = "iterate_pagerank"
    /\ pc = "loop"
    /\ ~converged
    /\ LET new == NewRanks(corpus, pagerank, damping_factor)
       IN  /\ new_ranks' = new
           /\ converged' = Converged(new, pagerank)
           /\ pagerank' = Adopt(new, pagerank)
    /\ UNCHANGED <<op, pc, error, corpus, damping_factor, n, page, probabilities,
                   current_page, counts, i>>

\* lines 120, 142
IterateReturn ==
    /\ op = "iterate_pagerank"
    /\ pc = "loop"
    /\ converged
    /\ pc' = "returned"
    /\ UNCHANGED <<op, error, corpus, damping_factor, n, page, probabilities,
                   current_page, counts, i, pagerank, new_ranks, converged>>

InitIterate == Call("iterate_pagerank", 1..MaxPages, ValidDamping, {0})

NextIterate == IterateStart \/ IterateStep \/ IterateReturn

SpecIterate == InitIterate /\ [][NextIterate]_vars

FairIterate == SpecIterate /\ WF_vars(NextIterate)

(***************************************************************************)
(* Calls with arguments nothing in the code rejects: an empty corpus, a    *)
(* damping factor of 0 or 1, a sample count below 1.                       *)
(***************************************************************************)
InitUnchecked ==
    \/ Call("sample_pagerank", 0..MaxPages, AnyDamping, (-1)..MaxSamples)
    \/ Call("iterate_pagerank", 0..MaxPages, AnyDamping, {0})

NextUnchecked == NextSample \/ NextIterate

SpecUnchecked == InitUnchecked /\ [][NextUnchecked]_vars

InitIterateUnchecked == Call("iterate_pagerank", 0..MaxPages, AnyDamping, {0})

FairIterateUnchecked ==
    InitIterateUnchecked /\ [][NextIterate]_vars /\ WF_vars(NextIterate)

(***************************************************************************)
(* Properties                                                              *)
(***************************************************************************)
Pages == DOMAIN corpus
NumPages == len(corpus)

\* d lies strictly between 0 and 1
OpenUnit(d) == 0 < d.n /\ d.n < d.d

\* sum of f over the set S
RECURSIVE SumOver(_, _)
SumOver(S, f) ==
    IF S = {} THEN RZero
    ELSE LET q == CHOOSE x \in S : TRUE
         IN  RAdd(f[q], SumOver(S \ {q}, f))

\* sum of f over the pages 1..k, accumulated in page order
RECURSIVE RSum(_, _)
RSum(f, k) == IF k = 0 THEN RZero ELSE RAdd(RSum(f, k - 1), f[k])

\* sum of the visit counters of the pages 1..k
RECURSIVE CountSum(_, _)
CountSum(cnt, k) == IF k = 0 THEN 0 ELSE CountSum(cnt, k - 1) + cnt[k]

\* |x - y| <= 0.001, by cross-multiplication
WithinTolerance(x, y) ==
    LET g == GCD[x.d, y.d]
        num == Abs(x.n * (y.d \div g) - y.n * (x.d \div g))
        den == (x.d \div g) * y.d
    IN  num <= den \div Tolerance

\* float addition and sum(f.values()) of section 8's test
FAdd(x, y) == RoundDouble(AddLimbs(x, y), FALSE)

\* sum(f.values()): float additions in dict order, starting from 0
RECURSIVE FSum(_, _)
FSum(f, k) == IF k = 0 THEN FZero ELSE FAdd(FSum(f, k - 1), f[k])

\* x <= y, comparing from limb j on
RECURSIVE LeqFrom(_, _, _)
LeqFrom(x, y, j) ==
    IF j > Limbs THEN TRUE
    ELSE IF x[j] # y[j] THEN x[j] < y[j] ELSE LeqFrom(x, y, j + 1)

FLeq(x, y) == LeqFrom(x, y, 1)

\* v * 2^-(SigBits - 1) for a small natural v: v units in the last place of 1.0
Ulps(v) ==
    LET u == v * Pow2(FracBits - (SigBits - 1))
    IN  [j \in 1..Limbs |-> IF j = Limbs THEN u % Base
                            ELSE IF j = Limbs - 1 THEN u \div Base ELSE 0]

\* C1 as stated: the ranks sample_pagerank returns, added up as floats in
\* page order, give exactly 1.0.
C1_SumIsExactlyOne ==
    (op = "sample_pagerank" /\ pc = "returned")
        => FSum(pagerank, NumPages) = FOne

\* C1 as amended: for a non-empty graph and n >= 1, after every loop iteration
\* the visit counters sum to the number of iterations done, so to n at the end;
\* each returned rank is the double nearest to counter / n, and the float sum of
\* the ranks is within one unit in the last place of 1.0 per page of 1.0.
C1_CountsSumToN ==
    op = "sample_pagerank" =>
        /\ pc = "loop" => CountSum(counts, NumPages) = i
        /\ pc = "returned" =>
              /\ CountSum(counts, NumPages) = n
              /\ \A p \in Pages : pagerank[p] = FDiv(counts[p], n)
              /\ FLeq(FSum(pagerank, NumPages), AddLimbs(FOne, Ulps(NumPages)))
              /\ FLeq(FOne, AddLimbs(FSum(pagerank, NumPages), Ulps(NumPages)))

\* a returned table whose float sum is not 1.0
C1_Witness ==
    /\ op = "sample_pagerank"
    /\ pc = "returned"
    /\ FSum(pagerank, NumPages) # FOne

\* C2: the ranks iterate_pagerank holds sum to 1 after initialization, after
\* every relaxation step and on return, dead-end pages included.
C2_RanksSumToOne ==
    (op = "iterate_pagerank" /\ pc \in {"loop", "returned"})
        => RSum(pagerank, NumPages) = ROne

\* a table returned after a step on a graph with a dead end and a linked page
C2_Witness ==
    /\ op = "iterate_pagerank"
    /\ pc = "returned"
    /\ new_ranks # Empty
    /\ \E p, q \in Pages : corpus[p] = {} /\ corpus[q] # {}

\* C3: transition_model gives (1-d)/N + d/k to a linked page and (1-d)/N to
\* any other page when the current page has k >= 1 links, and 1/N to every
\* page when it has none (a/b is d, by cross-multiplication).
C3_TransitionValues ==
    (op = "transition_model" /\ pc = "returned" /\ OpenUnit(damping_factor)) =>
        LET a == damping_factor.n
            b == damping_factor.d
            k == Cardinality(corpus[page])
        IN  \A p \in Pages :
              LET pr == probabilities[p]
              IN  IF k >= 1
                  THEN IF p \in corpus[page]
                       THEN pr.n * (b * NumPages * k) = pr.d * ((b - a) * k + a * NumPages)
                       ELSE pr.n * (b * NumPages) = pr.d * (b - a)
                  ELSE pr.n * NumPages = pr.d

\* a distribution from the linked branch with a linked and an unlinked page
C3_Witness ==
    /\ op = "transition_model"
    /\ pc = "returned"
    /\ \E p, q \in Pages : p \in corpus[page] /\ q \notin corpus[page]

\* C4: the result of transition_model has one entry per page, no negative
\* entry, and its entries sum to 1, in both branches.
C4_IsDistribution ==
    (op = "transition_model" /\ pc = "returned" /\ OpenUnit(damping_factor)) =>
        /\ DOMAIN probabilities = Pages
        /\ \A p \in Pages : probabilities[p].n >= 0
        /\ SumOver(Pages, probabilities) = ROne

\* a distribution from the dead-end branch over more than one page
C4_Witness ==
    /\ op = "transition_model"
    /\ pc = "returned"
    /\ corpus[page] = {}
    /\ NumPages > 1

InvalidInput ==
    \/ NumPages = 0
    \/ ~OpenUnit(damping_factor)
    \/ (op = "sample_pagerank" /\ n < 1)

\* C5: with an empty graph, a damping factor outside (0,1) or a sample count
\* below 1, neither estimator returns a rank table.
C5_InvalidInputFailsFast == InvalidInput => pc # "returned"

\* C6: on a non-empty graph with a damping factor in (0,1), iterate_pagerank
\* reaches a step where every change is at most 0.001 and returns.
C6_Terminates == <>(op = "iterate_pagerank" /\ pc = "returned" /\ converged)

\* a return after the ranks have moved away from 1/N
C6_Witness ==
    /\ op = "iterate_pagerank"
    /\ pc = "returned"
    /\ pagerank # InitialRanks(corpus)

\* C7: iterate_pagerank never loops forever: it returns or reports an error.
C7_NeverLoopsForever == <>(pc \in {"returned", "raised"})

\* contribution(q -> p) of section 4.3
Contribution(c, r, q, p) ==
    IF p \in c[q] THEN RDivInt(r[q], Cardinality(c[q]))
    ELSE IF c[q] = {} THEN RDivInt(r[q], len(c))
    ELSE RZero

UpdateRule(c, r, d, p) ==
    RAdd(RDivInt(RSub(ROne, d), len(c)),
         RMul(d, SumOver(DOMAIN c, [q \in DOMAIN c |-> Contribution(c, r, q, p)])))

\* C8: every rank starts at 1/N, and a relaxation step gives every page
\* (1-d)/N + d * (sum of the contributions of all pages), computed from the
\* ranks held before the step.
C8_UpdateRule ==
    [][/\ IterateStart => \A p \in Pages : pagerank'[p] = Rat(1, NumPages)
       /\ IterateStep =>
             \A p \in Pages :
                pagerank'[p] = UpdateRule(corpus, pagerank, damping_factor, p)]_vars

\* a second step is due: the first has replaced the initial ranks
C8_Witness ==
    /\ op = "iterate_pagerank"
    /\ pc = "loop"
    /\ ~converged
    /\ new_ranks # Empty
    /\ NumPages > 1

\* C9: a step sets converged exactly when every page moved by at most 0.001,
\* and adopts the new ranks either way; while not converged the loop does not
\* return, and once converged the next step returns the adopted new ranks.
C9_StopsAtFirstConvergedStep ==
    [][/\ IterateStep =>
             /\ converged' = (\A p \in Pages : WithinTolerance(new_ranks'[p], pagerank[p]))
             /\ pagerank' = new_ranks'
             /\ pc' = "loop"
       /\ (pc = "loop" /\ ~converged) => pc' = "loop"
       /\ (pc = "loop" /\ converged) =>
             /\ pc' = "returned"
             /\ pagerank' = new_ranks]_vars

\* a return after at least two steps
C9_Witness ==
    /\ op = "iterate_pagerank"
    /\ pc = "returned"
    /\ pagerank = new_ranks
    /\ \E p \in Pages : ~WithinTolerance(pagerank[p], UpdateRule(corpus, InitialRanks(corpus), damping_factor, p))

\* one step of the random surfer's chain: sum over q of r(q) * transition_model(q)[p]
ChainStep(c, r, d, p) ==
    SumOver(DOMAIN c, [q \in DOMAIN c |-> RMul(r[q], transition_model(c, q, d)[p])])

\* C10: a relaxation step gives every page p the sum over all pages q of
\* rank(q) * transition_model(corpus, q, d)[p], dead ends included.
C10_SameChain ==
    [][IterateStep =>
          \A p \in Pages :
             pagerank'[p] = ChainStep(corpus, pagerank, damping_factor, p)]_vars

\* a step taken from non-uniform ranks on a graph with a dead end
C10_Witness ==
    /\ op = "iterate_pagerank"
    /\ pc = "loop"
    /\ new_ranks # Empty
    /\ new_ranks # InitialRanks(corpus)
    /\ \E q \in Pages : corpus[q] = {}
====
